---- MODULE Spec2Model ----
(***************************************************************************)
(* Transform-chain runtime of shotover-proxy: the Tee transform with its   *)
(* three consistency behaviours, the BufferedChain it submits to, the      *)
(* Sampler, RedisClusterPortsRewrite, RedisTimestampTagger and AsyncMpsc   *)
(* transforms, and TeeBuilder::validate.                                   *)
(*                                                                         *)
(* One transform instance is under test in a behaviour (variable           *)
(* `transform`, chosen in Init).  The driver calls it with successive      *)
(* request batches; `call_next_transform` stands for the rest of the main  *)
(* chain, which may answer with any batch or with an error.                *)
(***************************************************************************)
EXTENDS Integers, Sequences, FiniteSets, TLC

\* ------------------------------------------------------------------ bounds
MaxCalls == 3       \* transform calls made by the driver in one behaviour
MaxBatch == 3       \* messages in one request batch
MaxBuffer == 1      \* largest configured buffer_size of a Tee
MaxDenominator == 2 \* largest configured Sampler denominator
MaxChainLen == 2    \* transforms in a configured sub-chain
MaxRedisBatch == 2  \* messages in one batch of parsed Redis requests

\* channel::<Message>(5) in AsyncMpsc::new
MpscBuffer == 5

\* the replacement port of the RedisClusterPortsRewrite under test
new_port == 2004

\* ---------------------------------------------------------------- messages
\* A message is its frame: a record [t, v].  Plain traffic is a bulk frame.
Msg(p) == [t |-> "Bulk", v |-> p]

\* The driver's batches: n pipelined requests, all different.
RequestOfLen(n) == [i \in 1..n |-> Msg("k" \o ToString(i))]

Batches == {RequestOfLen(n) : n \in 1..MaxBatch}

\* What a chain may answer to a batch: the batch itself (an echoing sink), a
\* fresh value per message, or one response fewer (a coalescing sink).
Echo(b) == b
Replace(b) == [i \in 1..Len(b) |-> Msg("v" \o ToString(i))]
Coalesce(b) == SubSeq(b, 1, Len(b) - 1)

\* Result values: Result<T, Error>, and a future that has not completed.
Pending == [st |-> "pending"]
Ok(x) == [st |-> "ok", v |-> x]
Err(e) == [st |-> "err", e |-> e]
IsOk(r) == r.st = "ok"
IsErr(r) == r.st = "err"
Panic == [st |-> "panic"]
None == [st |-> "none"]
Some(x) == [st |-> "some", v |-> x]

VARIABLES
    transform,        \* which transform the driver calls in this behaviour
    pc,               \* position of the transform call (an async fn)
    calls,            \* number of transform calls started so far
    request,          \* the batch as it arrived at the transform (history)
    message_wrapper,  \* the Wrapper's messages; moved into call_next_transform
    nextCalls,        \* call_next_transform invocations made by the current call
    tee_result,       \* result of the side future (Sampler: `sample`)
    chain_result,     \* result of call_next_transform (Sampler: `downstream`)
    result,           \* value returned by transform
    behavior,         \* Tee.behavior
    timeout_micros,   \* Tee.timeout_micros is Some(_)
    buffer_size,      \* Tee.buffer_size
    side_submit,      \* progress of tx.process_request[_no_return]
    side_clone,       \* message_wrapper.clone() handed to the side future
    tx,               \* side BufferedChain: [queue, busy]
    side_stuck,       \* the side chain never completes a work item
    side_sink,        \* the side chain's sink: "ErrSink" always errors, "any" may answer anything
    closed,           \* AsyncMpsc: every Sender of the channel has been dropped
    rx_handle,        \* AsyncMpsc: position of the task test_tee_loop spawned
    failed_message,   \* clone kept for the mismatch chain
    mm_submit,        \* progress of mismatch_chain.process_request
    mm_result,        \* reply of the mismatch chain
    mismatch_chain,   \* mismatch BufferedChain: [queue, busy], or None
    mm_stuck,         \* the mismatch chain never completes a work item
    mm_received,      \* batches the mismatch chain received from the current call
    dropped_messages, \* the tee_dropped_messages counter
    numerator,        \* Sampler.numerator
    denominator,      \* Sampler.denominator
    chance,           \* Sampler: the integer drawn by thread_rng_n in the current call
    builder,          \* TeeBuilder: [tx, mismatch_chain], chains as lists of transform names
    errors            \* what TeeBuilder::validate returned, once called

teeVars == <<behavior, timeout_micros, buffer_size, side_submit, side_clone, tx,
             side_stuck, side_sink, closed, rx_handle, failed_message, mm_submit, mm_result, mismatch_chain,
             mm_stuck, mm_received, dropped_messages>>

teeVarsButClone == <<behavior, timeout_micros, buffer_size, side_submit, tx,
                     side_stuck, side_sink, closed, rx_handle, failed_message, mm_submit, mm_result, mismatch_chain,
                     mm_stuck, mm_received, dropped_messages>>

callVars == <<pc, calls, request, message_wrapper, nextCalls, tee_result,
              chain_result, result>>

samplerVars == <<numerator, denominator, chance>>

builderVars == <<builder, errors>>

vars == <<transform, callVars, teeVars, samplerVars, builderVars>>

\* ------------------------------------------------------------ BufferedChain
\* A bounded FIFO of work items in front of one worker task.
EmptyChain == [queue |-> <<>>, busy |-> None]

\* reply: "none" (no one-shot channel), "live" (the submitter awaits it) or
\* "dropped" (the submitter gave up; the reply is discarded on arrival).
WorkItem(messages, reply) == [st |-> "item", messages |-> messages, reply |-> reply]

HasSpace(bc) == Len(bc.queue) < buffer_size

Enqueue(bc, item) == [bc EXCEPT !.queue = Append(@, item)]

\* The worker takes the oldest item off the queue.
Dequeue(bc) == [queue |-> Tail(bc.queue), busy |-> Head(bc.queue)]

DropReply(item) == IF item = None THEN item ELSE [item EXCEPT !.reply = IF @ = "live" THEN "dropped" ELSE @]

\* The awaiting submitter goes away: its one-shot receiver is dropped.
DropReceiver(bc) ==
    [queue |-> [i \in 1..Len(bc.queue) |-> DropReply(bc.queue[i])], busy |-> DropReply(bc.busy)]

\* ------------------------------------------------------------------ Message
MismatchDiag == "ERR The responses from the Tee subchain and down-chain did not match and behavior is set to fail on mismatch"

to_error_response(message, error) == [t |-> "Error", v |-> error]

\* Vec<Message>::eq: same length and element-wise equal.
BatchEq(x, y) == Len(x) = Len(y) /\ \A i \in 1..Len(x) : x[i] = y[i]

\* ---------------------------------------------------------------------- Tee
Behaviors == {"Ignore", "FailOnMismatch", "SubchainOnMismatch"}

\* TeeConfig::get_builder: self.buffer_size.unwrap_or(5)
DefaultBufferSize == 5

TeeConfig_buffer_size(opt) == IF opt = None THEN DefaultBufferSize ELSE opt.v

\* TeeConfig::get_builder: a mismatch chain exists exactly for SubchainOnMismatch.
TeeConfig_get_builder(b) == IF b = "SubchainOnMismatch" THEN EmptyChain ELSE None

CanCall == pc \in {"idle", "returned"} /\ calls < MaxCalls

\* What the downstream chain may answer to a batch of n messages.
ChainAnswers(b) == {Err("downstream"), Ok(Echo(b)), Ok(Replace(b)), Ok(Coalesce(b))}

\* What the side chain may answer to a work item.
SideAnswers(b) ==
    IF side_sink = "ErrSink" THEN {Err("side")}
    ELSE {Err("side"), Ok(Echo(b)), Ok(Replace(b)), Ok(Coalesce(b))}

\* Variant: the side error is propagated as in the other arms.
TeeIgnore_propagating(tee, chain) == IF IsErr(tee) THEN tee ELSE chain

\* The Ignore arm after the join.
TeeIgnore(tee, chain) == chain

\* Variant: every Ignore call counts, whether the side submission failed or not.
TeeIgnoreDropped_always(tee, n) == n + 1

\* The tee_dropped_messages counter after the Ignore arm.
TeeIgnoreDropped(tee, n) == IF IsErr(tee) THEN n + 1 ELSE n

\* Variant: only the first main response is overwritten on mismatch.
TeeFailOnMismatch_first(tee, chain) ==
    IF IsErr(tee) THEN tee
    ELSE IF IsErr(chain) THEN chain
    ELSE IF ~BatchEq(chain.v, tee.v)
         THEN Ok([i \in 1..Len(chain.v) |->
                    IF i = 1 THEN to_error_response(chain.v[i], MismatchDiag) ELSE chain.v[i]])
         ELSE Ok(chain.v)

\* Variant: a side error is swallowed and the main response returned.
TeeFailOnMismatch_swallow(tee, chain) ==
    IF IsErr(chain) THEN chain
    ELSE IF IsErr(tee) THEN Ok(chain.v)
    ELSE IF ~BatchEq(chain.v, tee.v)
         THEN Ok([i \in 1..Len(chain.v) |-> to_error_response(chain.v[i], MismatchDiag)])
         ELSE Ok(chain.v)

\* The FailOnMismatch arm after the join.
TeeFailOnMismatch(tee, chain) ==
    IF IsErr(tee) THEN tee
    ELSE IF IsErr(chain) THEN chain
    ELSE IF ~BatchEq(chain.v, tee.v)
         THEN Ok([i \in 1..Len(chain.v) |-> to_error_response(chain.v[i], MismatchDiag)])
         ELSE Ok(chain.v)

\* The SubchainOnMismatch arm after the join: TRUE when the mismatch chain is used.
TeeSubchainSubmits(tee, chain) ==
    IsOk(tee) /\ IsOk(chain) /\ ~BatchEq(chain.v, tee.v) /\ mismatch_chain # None

TeeSubchainEarly(tee, chain) ==
    IF IsErr(tee) THEN tee
    ELSE IF IsErr(chain) THEN chain
    ELSE Ok(chain.v)

\* Variant: the wrapper as the downstream chain left it is submitted.
TeeMismatchBatch_wrapper == message_wrapper

\* The batch handed to mismatch_chain.process_request.
TeeMismatchBatch == failed_message.v

\* What transform returns once the mismatch chain has replied.
TeeSubchainAfter(mm, chain) == IF IsErr(mm) THEN mm ELSE Ok(chain.v)

\* transform is entered: the clones are taken and both futures of the join start.
TeeTransform ==
    /\ transform = "Tee"
    /\ CanCall
    /\ \E batch \in Batches :
        /\ request' = batch
        /\ message_wrapper' = batch
        /\ side_clone' = batch
        /\ failed_message' = IF behavior = "SubchainOnMismatch" THEN Some(batch) ELSE None
    /\ calls' = calls + 1
    /\ pc' = "join"
    /\ nextCalls' = 1
    /\ tee_result' = Pending
    /\ chain_result' = Pending
    /\ result' = Pending
    /\ side_submit' = "sending"
    /\ mm_submit' = "none"
    /\ mm_result' = Pending
    /\ mm_received' = <<>>
    /\ UNCHANGED <<transform, behavior, timeout_micros, buffer_size, tx, side_stuck, side_sink, closed, rx_handle,
                   mismatch_chain, mm_stuck, dropped_messages, samplerVars, builderVars>>

\* Variant: the work item is enqueued whether or not the queue has space.
TeeSideEnqueue_unbounded ==
    /\ transform = "Tee"
    /\ pc = "join"
    /\ side_submit = "sending"
    /\ tx' = Enqueue(tx, WorkItem(side_clone, IF behavior = "Ignore" THEN "none" ELSE "live"))
    /\ side_clone' = <<>>
    /\ IF behavior = "Ignore"
       THEN side_submit' = "done" /\ tee_result' = Ok(<<>>)
       ELSE side_submit' = "awaiting" /\ UNCHANGED tee_result
    /\ UNCHANGED <<transform, pc, calls, request, message_wrapper, nextCalls,
                   chain_result, result, behavior, timeout_micros, buffer_size,
                   side_stuck, side_sink, closed, rx_handle, failed_message, mm_submit, mm_result,
                   mismatch_chain, mm_stuck, mm_received, dropped_messages, samplerVars, builderVars>>

\* Variant: the space test admits one item more than buffer_size.
TeeSideEnqueue_offByOne ==
    /\ transform = "Tee"
    /\ pc = "join"
    /\ side_submit = "sending"
    /\ Len(tx.queue) <= buffer_size
    /\ tx' = Enqueue(tx, WorkItem(side_clone, IF behavior = "Ignore" THEN "none" ELSE "live"))
    /\ side_clone' = <<>>
    /\ IF behavior = "Ignore"
       THEN side_submit' = "done" /\ tee_result' = Ok(<<>>)
       ELSE side_submit' = "awaiting" /\ UNCHANGED tee_result
    /\ UNCHANGED <<transform, pc, calls, request, message_wrapper, nextCalls,
                   chain_result, result, behavior, timeout_micros, buffer_size,
                   side_stuck, side_sink, closed, rx_handle, failed_message, mm_submit, mm_result,
                   mismatch_chain, mm_stuck, mm_received, dropped_messages, samplerVars, builderVars>>

\* Variant: the side copy is taken from the wrapper when the item is enqueued.
TeeSideEnqueue_lateClone ==
    /\ transform = "Tee"
    /\ pc = "join"
    /\ side_submit = "sending"
    /\ HasSpace(tx)
    /\ tx' = Enqueue(tx, WorkItem(message_wrapper, IF behavior = "Ignore" THEN "none" ELSE "live"))
    /\ side_clone' = <<>>
    /\ IF behavior = "Ignore"
       THEN side_submit' = "done" /\ tee_result' = Ok(<<>>)
       ELSE side_submit' = "awaiting" /\ UNCHANGED tee_result
    /\ UNCHANGED <<transform, pc, calls, request, message_wrapper, nextCalls,
                   chain_result, result, behavior, timeout_micros, buffer_size,
                   side_stuck, side_sink, closed, rx_handle, failed_message, mm_submit, mm_result,
                   mismatch_chain, mm_stuck, mm_received, dropped_messages, samplerVars, builderVars>>

\* The side future places its work item in the queue.
TeeSideEnqueue ==
    /\ transform = "Tee"
    /\ pc = "join"
    /\ side_submit = "sending"
    /\ HasSpace(tx)
    /\ tx' = Enqueue(tx, WorkItem(side_clone, IF behavior = "Ignore" THEN "none" ELSE "live"))
    /\ side_clone' = <<>>
    /\ IF behavior = "Ignore"
       THEN side_submit' = "done" /\ tee_result' = Ok(<<>>)
       ELSE side_submit' = "awaiting" /\ UNCHANGED tee_result
    /\ UNCHANGED <<transform, pc, calls, request, message_wrapper, nextCalls,
                   chain_result, result, behavior, timeout_micros, buffer_size,
                   side_stuck, side_sink, closed, rx_handle, failed_message, mm_submit, mm_result,
                   mismatch_chain, mm_stuck, mm_received, dropped_messages, samplerVars, builderVars>>

\* timeout_micros elapses while the side future waits for queue space or a reply.
TeeSideTimeout ==
    /\ transform = "Tee"
    /\ pc = "join"
    /\ timeout_micros
    /\ \/ side_submit = "sending" /\ ~HasSpace(tx)
       \/ side_submit = "awaiting"
    /\ tee_result' = Err(IF side_submit = "sending" THEN "Backpressure" ELSE "Timeout")
    /\ side_submit' = "done"
    /\ side_clone' = <<>>
    /\ tx' = DropReceiver(tx)
    /\ UNCHANGED <<transform, pc, calls, request, message_wrapper, nextCalls,
                   chain_result, result, behavior, timeout_micros, buffer_size,
                   side_stuck, side_sink, closed, rx_handle, failed_message, mm_submit, mm_result,
                   mismatch_chain, mm_stuck, mm_received, dropped_messages, samplerVars, builderVars>>

\* The side worker dequeues the next work item.
TxWorkerDequeue ==
    /\ transform = "Tee"
    /\ tx.busy = None
    /\ tx.queue # <<>>
    /\ tx' = Dequeue(tx)
    /\ UNCHANGED <<transform, callVars, behavior, timeout_micros, buffer_size,
                   side_submit, side_clone, side_stuck, side_sink, closed, rx_handle, failed_message, mm_submit,
                   mm_result, mismatch_chain, mm_stuck, mm_received, dropped_messages, samplerVars, builderVars>>

\* The side chain finishes the item; the reply goes to a submitter still waiting.
TxWorkerComplete ==
    /\ transform = "Tee"
    /\ tx.busy # None
    /\ ~side_stuck
    /\ tx' = [tx EXCEPT !.busy = None]
    /\ IF tx.busy.reply = "live"
       THEN /\ \E out \in SideAnswers(tx.busy.messages) : tee_result' = out
            /\ side_submit' = "done"
       ELSE UNCHANGED <<tee_result, side_submit>>
    /\ UNCHANGED <<transform, pc, calls, request, message_wrapper, nextCalls,
                   chain_result, result, behavior, timeout_micros, buffer_size,
                   side_clone, side_stuck, side_sink, closed, rx_handle, failed_message, mm_submit, mm_result,
                   mismatch_chain, mm_stuck, mm_received, dropped_messages, samplerVars, builderVars>>

\* Both futures of the join have completed: reconcile per behavior.
TeeReconcile ==
    /\ transform = "Tee"
    /\ pc = "join"
    /\ tee_result # Pending
    /\ chain_result # Pending
    /\ CASE behavior = "Ignore" ->
              /\ dropped_messages' = TeeIgnoreDropped(tee_result, dropped_messages)
              /\ result' = TeeIgnore(tee_result, chain_result)
              /\ pc' = "returned"
              /\ UNCHANGED mm_submit
         [] behavior = "FailOnMismatch" ->
              /\ result' = TeeFailOnMismatch(tee_result, chain_result)
              /\ pc' = "returned"
              /\ UNCHANGED <<dropped_messages, mm_submit>>
         [] behavior = "SubchainOnMismatch" ->
              /\ IF TeeSubchainSubmits(tee_result, chain_result)
                 THEN pc' = "mismatch" /\ mm_submit' = "sending" /\ UNCHANGED result
                 ELSE /\ pc' = "returned"
                      /\ result' = TeeSubchainEarly(tee_result, chain_result)
                      /\ UNCHANGED mm_submit
              /\ UNCHANGED dropped_messages
    /\ message_wrapper' = IF pc' = "returned" THEN <<>> ELSE message_wrapper
    /\ failed_message' = IF pc' = "returned" THEN None ELSE failed_message
    /\ UNCHANGED <<transform, calls, request, nextCalls, tee_result,
                   chain_result, behavior, timeout_micros, buffer_size, side_submit,
                   side_clone, tx, side_stuck, side_sink, closed, rx_handle, mm_result,
                   mismatch_chain, mm_stuck, mm_received, samplerVars, builderVars>>

\* mismatch_chain.process_request(failed_message, None): the item is enqueued.
TeeMismatchEnqueue ==
    /\ transform = "Tee"
    /\ pc = "mismatch"
    /\ mm_submit = "sending"
    /\ HasSpace(mismatch_chain)
    /\ mismatch_chain' = Enqueue(mismatch_chain, WorkItem(TeeMismatchBatch, "live"))
    /\ mm_received' = Append(mm_received, TeeMismatchBatch)
    /\ mm_submit' = "awaiting"
    /\ failed_message' = None
    /\ UNCHANGED <<transform, callVars, behavior, timeout_micros, buffer_size,
                   side_submit, side_clone, tx, side_stuck, side_sink, closed, rx_handle, mm_result,
                   mm_stuck, dropped_messages, samplerVars, builderVars>>

MmWorkerDequeue ==
    /\ transform = "Tee"
    /\ mismatch_chain # None
    /\ mismatch_chain.busy = None
    /\ mismatch_chain.queue # <<>>
    /\ mismatch_chain' = Dequeue(mismatch_chain)
    /\ UNCHANGED <<transform, callVars, behavior, timeout_micros, buffer_size,
                   side_submit, side_clone, tx, side_stuck, side_sink, closed, rx_handle, failed_message, mm_submit,
                   mm_result, mm_stuck, mm_received, dropped_messages, samplerVars, builderVars>>

\* The mismatch chain finishes the item and replies on the one-shot channel.
MmWorkerComplete ==
    /\ transform = "Tee"
    /\ mismatch_chain # None
    /\ mismatch_chain.busy # None
    /\ ~mm_stuck
    /\ mismatch_chain' = [mismatch_chain EXCEPT !.busy = None]
    /\ IF mismatch_chain.busy.reply = "live"
       THEN /\ \E out \in {Err("mismatch"), Ok(<<>>)} : mm_result' = out
            /\ mm_submit' = "done"
       ELSE UNCHANGED <<mm_result, mm_submit>>
    /\ UNCHANGED <<transform, callVars, behavior, timeout_micros, buffer_size,
                   side_submit, side_clone, tx, side_stuck, side_sink, closed, rx_handle, failed_message, mm_stuck,
                   mm_received, dropped_messages, samplerVars, builderVars>>

\* The awaited mismatch reply has arrived: `?`, then Ok(chain_response).
TeeMismatchReturn ==
    /\ transform = "Tee"
    /\ pc = "mismatch"
    /\ mm_result # Pending
    /\ result' = TeeSubchainAfter(mm_result, chain_result)
    /\ pc' = "returned"
    /\ message_wrapper' = <<>>
    /\ UNCHANGED <<transform, calls, request, nextCalls, tee_result,
                   chain_result, teeVars, samplerVars, builderVars>>

\* ------------------------------------------------------------------ Sampler
\* thread_rng_n(n): an integer in [0, n).
thread_rng_n(n) == 0..(n - 1)

\* Variant: an error of the side chain is returned to the caller.
SamplerSampled_propagating(sample, downstream) == IF IsErr(sample) THEN sample ELSE downstream

\* What transform returns: the sampled arm and the plain arm.
SamplerSampled(sample, downstream) == downstream

\* Variant: the non-sampled arm answers by itself and never calls the next transform.
SamplerTransform_skipNext ==
    /\ transform = "Sampler"
    /\ CanCall
    /\ \E batch \in Batches, c \in thread_rng_n(denominator) :
        /\ request' = batch
        /\ chance' = c
        /\ IF c < numerator
           THEN /\ side_clone' = batch
                /\ message_wrapper' = batch
                /\ tee_result' = Pending
                /\ pc' = "join"
                /\ nextCalls' = 1
                /\ result' = Pending
           ELSE /\ side_clone' = <<>>
                /\ message_wrapper' = <<>>
                /\ tee_result' = None
                /\ pc' = "returned"
                /\ nextCalls' = 0
                /\ result' = Ok(batch)
    /\ calls' = calls + 1
    /\ chain_result' = Pending
    /\ UNCHANGED <<transform, teeVarsButClone, numerator, denominator, builderVars>>

\* Variant: every call is sampled, whatever the draw.
SamplerTransform_always ==
    /\ transform = "Sampler"
    /\ CanCall
    /\ \E batch \in Batches, c \in thread_rng_n(denominator) :
        /\ request' = batch
        /\ message_wrapper' = batch
        /\ chance' = c
        /\ side_clone' = batch /\ tee_result' = Pending /\ pc' = "join"
    /\ calls' = calls + 1
    /\ nextCalls' = 1
    /\ chain_result' = Pending
    /\ result' = Pending
    /\ UNCHANGED <<transform, teeVarsButClone, numerator, denominator, builderVars>>

\* transform is entered: the draw decides between the join and the plain call.
SamplerTransform ==
    /\ transform = "Sampler"
    /\ CanCall
    /\ \E batch \in Batches, c \in thread_rng_n(denominator) :
        /\ request' = batch
        /\ message_wrapper' = batch
        /\ chance' = c
        /\ IF c < numerator
           THEN side_clone' = batch /\ tee_result' = Pending /\ pc' = "join"
           ELSE side_clone' = <<>> /\ tee_result' = None /\ pc' = "next"
    /\ calls' = calls + 1
    /\ nextCalls' = 1
    /\ chain_result' = Pending
    /\ result' = Pending
    /\ UNCHANGED <<transform, teeVarsButClone, numerator, denominator, builderVars>>

\* sample_chain.process_request(sample, ..) completes; the chain runs inline.
SamplerSampleDone ==
    /\ transform = "Sampler"
    /\ pc = "join"
    /\ tee_result = Pending
    /\ \E out \in SideAnswers(side_clone) : tee_result' = out
    /\ side_clone' = <<>>
    /\ UNCHANGED <<transform, pc, calls, request, message_wrapper, nextCalls,
                   chain_result, result, teeVarsButClone, samplerVars, builderVars>>

SamplerReturn ==
    /\ transform = "Sampler"
    /\ \/ pc = "join" /\ tee_result # Pending /\ chain_result # Pending
       \/ pc = "next" /\ chain_result # Pending
    /\ result' = IF pc = "join" THEN SamplerSampled(tee_result, chain_result) ELSE chain_result
    /\ pc' = "returned"
    /\ message_wrapper' = <<>>
    /\ UNCHANGED <<transform, calls, request, nextCalls, tee_result, chain_result,
                   teeVars, samplerVars, builderVars>>

\* ---------------------------------------------------------------- AsyncMpsc
\* AsyncMpscTee::transform is entered: the message is cloned and the send starts.
MpscTeeTransform ==
    /\ transform = "AsyncMpscTee"
    /\ CanCall
    /\ ~closed
    /\ \E batch \in Batches :
        /\ request' = batch
        /\ message_wrapper' = batch
        /\ side_clone' = batch
    /\ calls' = calls + 1
    /\ pc' = "send"
    /\ nextCalls' = 0
    /\ tee_result' = Pending
    /\ chain_result' = Pending
    /\ result' = Pending
    /\ UNCHANGED <<transform, teeVarsButClone, samplerVars, builderVars>>

\* The send completes (its result is ignored) and call_next_transform is invoked.
MpscTeeSend ==
    /\ transform = "AsyncMpscTee"
    /\ pc = "send"
    /\ HasSpace(tx)
    /\ tx' = Enqueue(tx, WorkItem(side_clone, "none"))
    /\ side_clone' = <<>>
    /\ tee_result' = Ok(<<>>)
    /\ nextCalls' = nextCalls + 1
    /\ pc' = "next"
    /\ UNCHANGED <<transform, calls, request, message_wrapper, chain_result, result,
                   behavior, timeout_micros, buffer_size, side_submit, side_stuck, side_sink, closed, rx_handle,
                   failed_message, mm_submit, mm_result, mismatch_chain, mm_stuck,
                   mm_received, dropped_messages, samplerVars, builderVars>>

MpscTeeReturn ==
    /\ transform = "AsyncMpscTee"
    /\ pc = "next"
    /\ chain_result # Pending
    /\ result' = chain_result
    /\ pc' = "returned"
    /\ message_wrapper' = <<>>
    /\ UNCHANGED <<transform, calls, request, nextCalls, tee_result, chain_result,
                   teeVars, samplerVars, builderVars>>

\* Variant: the loop takes the newest message of the channel.
MpscLoopRecv_newest ==
    /\ transform = "AsyncMpscTee"
    /\ tx.busy = None
    /\ tx.queue # <<>>
    /\ tx' = [queue |-> SubSeq(tx.queue, 1, Len(tx.queue) - 1), busy |-> tx.queue[Len(tx.queue)]]
    /\ UNCHANGED <<transform, callVars, behavior, timeout_micros, buffer_size,
                   side_submit, side_clone, side_stuck, side_sink, closed, rx_handle, failed_message, mm_submit,
                   mm_result, mismatch_chain, mm_stuck, mm_received, dropped_messages,
                   samplerVars, builderVars>>

\* test_tee_loop: rx.recv() yields the oldest message.
MpscLoopRecv ==
    /\ transform = "AsyncMpscTee"
    /\ rx_handle = "recv"
    /\ tx.busy = None
    /\ tx.queue # <<>>
    /\ tx' = Dequeue(tx)
    /\ UNCHANGED <<transform, callVars, behavior, timeout_micros, buffer_size,
                   side_submit, side_clone, side_stuck, side_sink, closed, rx_handle, failed_message, mm_submit,
                   mm_result, mismatch_chain, mm_stuck, mm_received, dropped_messages,
                   samplerVars, builderVars>>

\* test_tee_loop: chain.process_request(w) completes; its result is discarded.
MpscLoopProcessed ==
    /\ transform = "AsyncMpscTee"
    /\ tx.busy # None
    /\ ~side_stuck
    /\ tx' = [tx EXCEPT !.busy = None]
    /\ UNCHANGED <<transform, callVars, behavior, timeout_micros, buffer_size,
                   side_submit, side_clone, side_stuck, side_sink, closed, rx_handle, failed_message, mm_submit,
                   mm_result, mismatch_chain, mm_stuck, mm_received, dropped_messages,
                   samplerVars, builderVars>>

\* The AsyncMpsc and the transforms made from it are dropped: no Sender is left.
MpscClose ==
    /\ transform = "AsyncMpscTee"
    /\ pc \in {"idle", "returned"}
    /\ ~closed
    /\ closed' = TRUE
    /\ UNCHANGED <<transform, callVars, behavior, timeout_micros, buffer_size,
                   side_submit, side_clone, tx, side_stuck, side_sink, rx_handle,
                   failed_message, mm_submit, mm_result, mismatch_chain, mm_stuck,
                   mm_received, dropped_messages, samplerVars, builderVars>>

\* test_tee_loop: on the closed and empty channel rx.recv() yields None; the
\* `if let Some(m)` has no else branch, so the body of the loop ends there.
MpscLoopRecvNone ==
    /\ transform = "AsyncMpscTee"
    /\ rx_handle = "recv"
    /\ closed
    /\ tx = EmptyChain
    /\ rx_handle' = "again"
    /\ UNCHANGED <<transform, callVars, behavior, timeout_micros, buffer_size,
                   side_submit, side_clone, tx, side_stuck, side_sink, closed,
                   failed_message, mm_submit, mm_result, mismatch_chain, mm_stuck,
                   mm_received, dropped_messages, samplerVars, builderVars>>

\* test_tee_loop: `loop` starts its next iteration and calls rx.recv() again.
MpscLoopAgain ==
    /\ transform = "AsyncMpscTee"
    /\ rx_handle = "again"
    /\ rx_handle' = "recv"
    /\ UNCHANGED <<transform, callVars, behavior, timeout_micros, buffer_size,
                   side_submit, side_clone, tx, side_stuck, side_sink, closed,
                   failed_message, mm_submit, mm_result, mismatch_chain, mm_stuck,
                   mm_received, dropped_messages, samplerVars, builderVars>>

\* ------------------------------------------------- RedisClusterPortsRewrite
\* redis_protocol Frame values.
BulkString(s) == [t |-> "BulkString", v |-> s]
Integer(n) == [t |-> "Integer", v |-> n]
Array(a) == [t |-> "Array", v |-> a]

\* Message as this transform sees it: the frame in `original`, and `modified`.
RedisMessage(frame) == [original |-> frame, modified |-> FALSE]

\* [u8]::to_ascii_uppercase on the byte strings that occur in requests here.
to_ascii_uppercase(s) ==
    CASE s \in {"cluster", "Cluster", "CLUSTER"} -> "CLUSTER"
      [] s \in {"slots", "Slots", "SLOTS"} -> "SLOTS"
      [] s \in {"get", "GET"} -> "GET"
      [] s \in {"key1", "KEY1"} -> "KEY1"
      [] OTHER -> s

\* Length of the leading run of bulk strings (map .. take_while(Option::is_some)).
BulkPrefixLen(a) ==
    CHOOSE n \in 0..Len(a) :
        /\ \A i \in 1..n : a[i].t = "BulkString"
        /\ n = Len(a) \/ a[n + 1].t # "BulkString"

is_cluster_slots(frame) ==
    IF frame.t = "Array"
    THEN LET args == [i \in 1..BulkPrefixLen(frame.v) |-> to_ascii_uppercase(frame.v[i].v)]
         IN  args = <<"CLUSTER", "SLOTS">>
    ELSE FALSE

\* Variant: the node entry is rebuilt as [ip, port], losing what follows.
RewriteSlotElement_truncating(index, frame, port) ==
    IF index <= 1 THEN [ok |-> TRUE, frame |-> frame]
    ELSE IF frame.t = "Array"
         THEN IF Len(frame.v) >= 2 /\ frame.v[1].t = "BulkString" /\ frame.v[2].t = "Integer"
              THEN [ok |-> TRUE, frame |-> Array(<<frame.v[1], Integer(port)>>)]
              ELSE [ok |-> FALSE, frame |-> frame]
         ELSE [ok |-> FALSE, frame |-> frame]

\* One element of a slot entry, at 0-based position `index`: [ok, frame].
RewriteSlotElement(index, frame, port) ==
    IF index <= 1 THEN [ok |-> TRUE, frame |-> frame]
    ELSE IF frame.t = "Array"
         THEN IF Len(frame.v) >= 2 /\ frame.v[1].t = "BulkString" /\ frame.v[2].t = "Integer"
              THEN [ok |-> TRUE, frame |-> Array([frame.v EXCEPT ![2] = Integer(port)])]
              ELSE [ok |-> FALSE, frame |-> frame]
         ELSE [ok |-> FALSE, frame |-> frame]

\* One top-level element: only arrays are looked into.
RewriteSlot(elem, port) ==
    IF elem.t = "Array"
    THEN LET r == [j \in 1..Len(elem.v) |-> RewriteSlotElement(j - 1, elem.v[j], port)]
         IN  [ok |-> \A j \in 1..Len(elem.v) : r[j].ok,
              frame |-> Array([j \in 1..Len(elem.v) |-> r[j].frame])]
    ELSE [ok |-> TRUE, frame |-> elem]

\* rewrite_port: [ok, frame]; ok = FALSE stands for the bail!.
rewrite_port(frame, port) ==
    IF frame.t = "Array"
    THEN LET r == [j \in 1..Len(frame.v) |-> RewriteSlot(frame.v[j], port)]
         IN  [ok |-> \A j \in 1..Len(frame.v) : r[j].ok,
              frame |-> Array([j \in 1..Len(frame.v) |-> r[j].frame])]
    ELSE [ok |-> TRUE, frame |-> frame]

\* Indices (1-based here) of the CLUSTER SLOTS requests of a batch, ascending.
cluster_slots_indices(messages) ==
    SelectSeq([i \in 1..Len(messages) |-> i], LAMBDA i : is_cluster_slots(messages[i].original))

\* Variant: the rewritten frame is stored at the front of the batch.
RECURSIVE PortsRewriteLoop_front(_, _, _)
PortsRewriteLoop_front(indices, response, port) ==
    IF indices = <<>> THEN Ok(response)
    ELSE LET i == Head(indices) IN
         IF i > Len(response) THEN Panic
         ELSE LET r == rewrite_port(response[i].original, port) IN
              IF ~r.ok THEN Err("failed to rewrite CLUSTER SLOTS port")
              ELSE PortsRewriteLoop_front(Tail(indices),
                                          [response EXCEPT ![1].original = r.frame], port)

\* The loop over the recorded indices: response[i] panics past the end, a
\* failed rewrite returns the error.
RECURSIVE PortsRewriteLoop(_, _, _)
PortsRewriteLoop(indices, response, port) ==
    IF indices = <<>> THEN Ok(response)
    ELSE LET i == Head(indices) IN
         IF i > Len(response) THEN Panic
         ELSE LET r == rewrite_port(response[i].original, port) IN
              IF ~r.ok THEN Err("failed to rewrite CLUSTER SLOTS port")
              ELSE PortsRewriteLoop(Tail(indices),
                                    [response EXCEPT ![i].original = r.frame], port)

ClusterSlotsRequest == Array(<<BulkString("cluster"), BulkString("SLOTS")>>)
GetRequest == Array(<<BulkString("GET"), BulkString("key1")>>)

\* A request frame with a further element that is no bulk string.
ClusterSlotsExtra == Array(<<BulkString("CLUSTER"), BulkString("slots"), Integer(1)>>)

RedisRequests ==
    UNION {[1..n -> {RedisMessage(ClusterSlotsRequest), RedisMessage(GetRequest),
                     RedisMessage(ClusterSlotsExtra)}] : n \in 1..MaxRedisBatch}

\* Responses at position i: a slot map, a plain value, a slot map with a
\* node entry that is no [ip, port, ..] array.
Node(ip, port) == Array(<<BulkString(ip), Integer(port), BulkString("id" \o ip)>>)
SlotMap(i) == Array(<<Array(<<Integer(0), Integer(5460 + i), Node("192.168.80.7", 6379), Node("192.168.80.4", 6380)>>),
                      Array(<<Integer(5461 + i), Integer(16383), Node("192.168.80.6", 6379)>>)>>)
BadSlotMap(i) == Array(<<Array(<<Integer(0), Integer(5460 + i), BulkString("192.168.80.7")>>)>>)
RedisResponsesAt(i) ==
    {RedisMessage(SlotMap(i)), RedisMessage(BulkString("v" \o ToString(i))), RedisMessage(BadSlotMap(i))}

RedisAnswers(b) ==
    {Err("downstream")}
      \cup {Ok(r) : r \in {r \in [1..Len(b) -> UNION {RedisResponsesAt(i) : i \in 1..Len(b)}] :
                               \A i \in 1..Len(b) : r[i] \in RedisResponsesAt(i)}}
      \cup {Ok(<<>>)}

\* transform is entered: the indices are recorded and the next transform called.
PortsRewriteTransform ==
    /\ transform = "RedisClusterPortsRewrite"
    /\ CanCall
    /\ \E batch \in RedisRequests :
        /\ request' = batch
        /\ message_wrapper' = batch
    /\ calls' = calls + 1
    /\ pc' = "next"
    /\ nextCalls' = 1
    /\ tee_result' = None
    /\ chain_result' = Pending
    /\ result' = Pending
    /\ UNCHANGED <<transform, teeVars, samplerVars, builderVars>>

\* call_next_transform has answered: `?`, then the rewrite loop.
PortsRewriteFinish ==
    /\ transform = "RedisClusterPortsRewrite"
    /\ pc = "next"
    /\ chain_result # Pending
    /\ result' = IF IsErr(chain_result) THEN chain_result
                 ELSE PortsRewriteLoop(cluster_slots_indices(request), chain_result.v, new_port)
    /\ pc' = IF result' = Panic THEN "panicked" ELSE "returned"
    /\ message_wrapper' = <<>>
    /\ UNCHANGED <<transform, calls, request, nextCalls, tee_result, chain_result,
                   teeVars, samplerVars, builderVars>>

\* ----------------------------------------------------- RedisTimestampTagger
\* message::Value
VInteger(n) == [t |-> "Integer", v |-> n]
VBytes(s) == [t |-> "Bytes", v |-> s]
VList(l) == [t |-> "List", v |-> l]
VDocument(ts) == [t |-> "Document", v |-> [timestamp |-> ts]]

\* MessageDetails::Query(QueryMessage): the command of the ast, and whether
\* primary_key["key"] is a non-empty list.
Query(command, key) ==
    [details |-> "Query", command |-> command, key |-> key, script |-> None, modified |-> FALSE]

\* MessageDetails::Response(QueryResponse)
Response(res) ==
    [details |-> "Response", result |-> res, response_meta |-> None, modified |-> FALSE]

\* Any other MessageDetails.
Unknown == [details |-> "Unknown", modified |-> FALSE]

\* SystemTime::now() in seconds since the epoch, as the clock may read.
Nows == {1000, 1001}

\* wrap_command succeeds when there is a key and the ast is a command list.
wrap_command_ok(qm) == qm.key

\* try_tag_query_message: the ast becomes the EVAL script around the command.
try_tag_query_message(qm) ==
    IF wrap_command_ok(qm)
    THEN [tagged |-> TRUE, qm |-> [qm EXCEPT !.command = "EVAL", !.script = Some(qm.command)]]
    ELSE [tagged |-> FALSE, qm |-> qm]

\* Variant: tagged_success starts true, so it tells whether every query was tagged.
RECURSIVE TaggerLoop_seededTrue(_, _)
TaggerLoop_seededTrue(messages, k) ==
    IF k = 0 THEN [messages |-> messages, tagged_success |-> TRUE, exec_block |-> FALSE]
    ELSE LET prev == TaggerLoop_seededTrue(messages, k - 1)
             msg == messages[k]
         IN  IF msg.details = "Query"
             THEN LET t == try_tag_query_message(msg)
                  IN  [messages |-> [prev.messages EXCEPT ![k] = t.qm],
                       tagged_success |-> prev.tagged_success /\ t.tagged,
                       exec_block |-> prev.exec_block \/ msg.command = "EXEC"]
             ELSE prev

\* The request loop: [messages, tagged_success, exec_block] after the first
\* k messages, starting from tagged_success = false and exec_block = false.
RECURSIVE TaggerLoop(_, _)
TaggerLoop(messages, k) ==
    IF k = 0 THEN [messages |-> messages, tagged_success |-> FALSE, exec_block |-> FALSE]
    ELSE LET prev == TaggerLoop(messages, k - 1)
             msg == messages[k]
         IN  IF msg.details = "Query"
             THEN LET t == try_tag_query_message(msg)
                  IN  [messages |-> [prev.messages EXCEPT ![k] = t.qm],
                       tagged_success |-> prev.tagged_success /\ t.tagged,
                       exec_block |-> prev.exec_block \/ msg.command = "EXEC"]
             ELSE prev

\* The transaction arm of unwrap_response: only inner lists of two elements
\* contribute a result and a timestamp.
RECURSIVE UnwrapPairs(_)
UnwrapPairs(values) ==
    IF values = <<>> THEN [timestamps |-> <<>>, results |-> <<>>]
    ELSE LET rest == UnwrapPairs(Tail(values))
             v == Head(values).v
         IN  IF Len(v) = 2
             THEN [timestamps |-> <<v[2]>> \o rest.timestamps, results |-> <<v[1]>> \o rest.results]
             ELSE rest

unwrap_response(qr, now) ==
    IF qr.result # None /\ qr.result.v.t = "List"
    THEN LET values == qr.result.v.v
             all_lists == \A i \in 1..Len(values) : values[i].t = "List"
         IN  IF all_lists /\ Len(values) > 1
             THEN LET u == UnwrapPairs(values)
                  IN  [qr EXCEPT !.response_meta = Some(VDocument(VList(u.timestamps))),
                                 !.result = Some(VList(u.results))]
             ELSE IF Len(values) = 2
             THEN LET ts == values[2]
                  IN  [qr EXCEPT !.response_meta =
                                     Some(VDocument(IF ts.t = "Integer" THEN VInteger(now - ts.v) ELSE ts)),
                                 !.result = Some(values[1])]
             ELSE qr
    ELSE qr

\* The response loop: every Response message is unwrapped and marked modified.
TaggerUnwrapAll(messages, now) ==
    [i \in 1..Len(messages) |->
        IF messages[i].details = "Response"
        THEN [unwrap_response(messages[i], now) EXCEPT !.modified = TRUE]
        ELSE messages[i]]

\* Variant: a downstream error is replaced by an empty success batch.
TaggerResult_recovering(loop, response, now) ==
    IF IsOk(response)
    THEN IF loop.tagged_success \/ loop.exec_block
         THEN Ok(TaggerUnwrapAll(response.v, now))
         ELSE Ok(response.v)
    ELSE Ok(<<>>)

\* What transform returns once call_next_transform has answered.
TaggerResult(loop, response, now) ==
    IF IsOk(response)
    THEN IF loop.tagged_success \/ loop.exec_block
         THEN Ok(TaggerUnwrapAll(response.v, now))
         ELSE Ok(response.v)
    ELSE response

TaggerRequests ==
    UNION {[1..n -> {Query("GET", TRUE), Query("EXEC", FALSE), Unknown}] : n \in 1..MaxBatch}

\* The sink answers every message of the batch with the same kind of response:
\* a plain value, an [actual, idletime] pair, a transaction of pairs, a
\* transaction with an inner list that is no pair, or no result followed by
\* messages that are no Response.
TaggerAnswers(b) ==
    {Err("downstream"), Ok(<<>>)}
      \cup {Ok([i \in 1..Len(b) |-> Response(Some(VBytes("v" \o ToString(i))))]),
            Ok([i \in 1..Len(b) |-> Response(Some(VList(<<VBytes("v" \o ToString(i)), VInteger(10 * i)>>)))]),
            Ok([i \in 1..Len(b) |->
                  Response(Some(VList(<<VList(<<VBytes("OK"), VInteger(10 * i)>>),
                                        VList(<<VBytes("v" \o ToString(i)), VInteger(20)>>)>>)))]),
            Ok([i \in 1..Len(b) |->
                  Response(Some(VList(<<VList(<<VBytes("OK")>>),
                                        VList(<<VBytes("v" \o ToString(i)), VInteger(20)>>)>>)))]),
            Ok([i \in 1..Len(b) |-> IF i = 1 THEN Response(None) ELSE Unknown])}

\* transform is entered: the request loop runs, then the next transform is called.
TaggerTransform ==
    /\ transform = "RedisTimestampTagger"
    /\ CanCall
    /\ \E batch \in TaggerRequests :
        /\ request' = batch
        /\ message_wrapper' = TaggerLoop(batch, Len(batch)).messages
    /\ calls' = calls + 1
    /\ pc' = "next"
    /\ nextCalls' = 1
    /\ tee_result' = None
    /\ chain_result' = Pending
    /\ result' = Pending
    /\ UNCHANGED <<transform, teeVars, samplerVars, builderVars>>

\* call_next_transform has answered: unwrap on success, else pass the error on.
TaggerFinish ==
    /\ transform = "RedisTimestampTagger"
    /\ pc = "next"
    /\ chain_result # Pending
    /\ \E now \in Nows :
         result' = TaggerResult(TaggerLoop(request, Len(request)), chain_result, now)
    /\ pc' = "returned"
    /\ message_wrapper' = <<>>
    /\ UNCHANGED <<transform, calls, request, nextCalls, tee_result, chain_result,
                   teeVars, samplerVars, builderVars>>

\* --------------------------------------------------------------- TeeBuilder
TransformNames == {"NullSink", "DebugPrinter"}

is_terminating(name) == name = "NullSink"

ChainConfigs == UNION {[1..n -> TransformNames] : n \in 0..MaxChainLen}

\* The errors one transform of a chain contributes.
ChainTransformErrors(chain, i) ==
    IF i = Len(chain) /\ ~is_terminating(chain[i])
    THEN <<"  Non-terminating transform \"" \o chain[i] \o "\" is last in chain. Last transform must be terminating.">>
    ELSE IF i # Len(chain) /\ is_terminating(chain[i])
    THEN <<"  Terminating transform \"" \o chain[i] \o "\" is not last in chain. Terminating transform must be last in chain.">>
    ELSE <<>>

RECURSIVE ChainErrorsUpTo(_, _)
ChainErrorsUpTo(chain, k) ==
    IF k = 0 THEN <<>> ELSE ChainErrorsUpTo(chain, k - 1) \o ChainTransformErrors(chain, k)

\* TransformChainBuilder::validate: the chain's name line, then its errors.
TransformChainBuilder_validate(name, chain) ==
    LET errs == ChainErrorsUpTo(chain, Len(chain))
    IN  IF errs # <<>> THEN <<name \o ":">> \o errs ELSE errs

get_name == "Tee"

\* Variant: the sub-chain's errors are passed on without the indentation.
TeeBuilder_validate_flat(b) ==
    IF b.mismatch_chain # None
    THEN LET sub == TransformChainBuilder_validate("mismatch_chain", b.mismatch_chain.v)
             errs == [i \in 1..Len(sub) |-> sub[i]]
         IN  IF errs # <<>> THEN <<get_name \o ":">> \o errs ELSE errs
    ELSE <<>>

\* TeeBuilder::validate
TeeBuilder_validate(b) ==
    IF b.mismatch_chain # None
    THEN LET sub == TransformChainBuilder_validate("mismatch_chain", b.mismatch_chain.v)
             errs == [i \in 1..Len(sub) |-> "  " \o sub[i]]
         IN  IF errs # <<>> THEN <<get_name \o ":">> \o errs ELSE errs
    ELSE <<>>

TeeBuilderValidate ==
    /\ transform = "TeeBuilder"
    /\ errors = None
    /\ errors' = Some(TeeBuilder_validate(builder))
    /\ UNCHANGED <<transform, callVars, teeVars, samplerVars, builder>>

\* ------------------------------------------------------- rest of the chain
\* The answers of the rest of the main chain, by the protocol of the traffic.
Answers(b) ==
    CASE transform = "RedisClusterPortsRewrite" -> RedisAnswers(b)
      [] transform = "RedisTimestampTagger" -> TaggerAnswers(b)
      [] OTHER -> ChainAnswers(b)

\* call_next_transform completes: the rest of the main chain has answered.  The
\* wrapper was moved into it, and downstream transforms may have rewritten it.
CallNextDone ==
    /\ pc \in {"join", "next"}
    /\ nextCalls = 1
    /\ chain_result = Pending
    /\ \E out \in Answers(message_wrapper) : chain_result' = out
    /\ \E rewritten \in BOOLEAN :
         message_wrapper' = IF rewritten THEN Replace(message_wrapper) ELSE message_wrapper
    /\ UNCHANGED <<transform, pc, calls, request, nextCalls, tee_result, result, teeVars, samplerVars, builderVars>>

\* ------------------------------------------------------------ specification
\* A Tee as TeeConfig::get_builder and TeeBuilder::build make it.
InitTee ==
    /\ transform = "Tee"
    /\ behavior \in Behaviors
    /\ timeout_micros \in BOOLEAN
    /\ buffer_size \in {TeeConfig_buffer_size(opt) : opt \in {None} \cup {Some(n) : n \in 1..MaxBuffer}}
    /\ side_stuck \in BOOLEAN
    /\ side_sink \in {"any", "ErrSink"}
    /\ mismatch_chain = TeeConfig_get_builder(behavior)
    /\ mm_stuck \in (IF behavior = "SubchainOnMismatch" THEN BOOLEAN ELSE {FALSE})
    /\ numerator = 0 /\ denominator = 1

InitSampler ==
    /\ transform = "Sampler"
    /\ denominator \in 1..MaxDenominator
    /\ numerator \in 0..MaxDenominator
    /\ behavior = "Ignore" /\ timeout_micros = FALSE /\ buffer_size = 1
    /\ side_stuck = FALSE /\ mismatch_chain = None /\ mm_stuck = FALSE

\* An AsyncMpscTee in front of the channel AsyncMpsc::new creates.
InitMpsc ==
    /\ transform = "AsyncMpscTee"
    /\ buffer_size = MpscBuffer
    /\ side_stuck \in BOOLEAN
    /\ behavior = "Ignore" /\ timeout_micros = FALSE
    /\ mismatch_chain = None /\ mm_stuck = FALSE
    /\ numerator = 0 /\ denominator = 1

InitPortsRewrite ==
    /\ transform = "RedisClusterPortsRewrite"
    /\ behavior = "Ignore" /\ timeout_micros = FALSE /\ buffer_size = 1
    /\ side_stuck = FALSE /\ mismatch_chain = None /\ mm_stuck = FALSE
    /\ numerator = 0 /\ denominator = 1

InitTagger ==
    /\ transform = "RedisTimestampTagger"
    /\ behavior = "Ignore" /\ timeout_micros = FALSE /\ buffer_size = 1
    /\ side_stuck = FALSE /\ mismatch_chain = None /\ mm_stuck = FALSE
    /\ numerator = 0 /\ denominator = 1

NoBuilder == builder = [tx |-> <<>>, mismatch_chain |-> None]

\* A TeeBuilder as TeeConfig::get_builder makes it from a configuration.
InitTeeBuilder ==
    /\ transform = "TeeBuilder"
    /\ behavior \in Behaviors
    /\ \E chain \in ChainConfigs, mismatch \in ChainConfigs :
         builder = [tx |-> chain,
                    mismatch_chain |-> IF behavior = "SubchainOnMismatch" THEN Some(mismatch) ELSE None]
    /\ timeout_micros = FALSE /\ buffer_size = 1
    /\ side_stuck = FALSE /\ mismatch_chain = None /\ mm_stuck = FALSE
    /\ numerator = 0 /\ denominator = 1

Init ==
    /\ \/ (InitTee \/ InitSampler \/ InitMpsc \/ InitPortsRewrite \/ InitTagger) /\ NoBuilder
       \/ InitTeeBuilder
    /\ transform # "Tee" => side_sink = "any"
    /\ errors = None
    /\ pc = "idle"
    /\ calls = 0
    /\ request = <<>>
    /\ message_wrapper = <<>>
    /\ nextCalls = 0
    /\ tee_result = Pending
    /\ chain_result = Pending
    /\ result = Pending
    /\ side_submit = "none"
    /\ side_clone = <<>>
    /\ tx = EmptyChain
    /\ failed_message = None
    /\ mm_submit = "none"
    /\ mm_result = Pending
    /\ mm_received = <<>>
    /\ dropped_messages = 0
    /\ chance = 0
    /\ closed = FALSE
    /\ rx_handle = "recv"

Next ==
    \/ TeeTransform
    \/ TeeSideEnqueue
    \/ TeeSideTimeout
    \/ TxWorkerDequeue
    \/ TxWorkerComplete
    \/ CallNextDone
    \/ TeeReconcile
    \/ TeeMismatchEnqueue
    \/ MmWorkerDequeue
    \/ MmWorkerComplete
    \/ TeeMismatchReturn
    \/ SamplerTransform
    \/ SamplerSampleDone
    \/ SamplerReturn
    \/ MpscTeeTransform
    \/ MpscTeeSend
    \/ MpscTeeReturn
    \/ MpscLoopRecv
    \/ MpscLoopProcessed
    \/ MpscClose
    \/ MpscLoopRecvNone
    \/ MpscLoopAgain
    \/ PortsRewriteTransform
    \/ PortsRewriteFinish
    \/ TaggerTransform
    \/ TaggerFinish
    \/ TeeBuilderValidate

Spec == Init /\ [][Next]_vars

\* Every task that can run is scheduled (tokio's cooperative scheduler), timers
\* fire, and the downstream chain answers.  The driver need not send again, and
\* a stuck chain (side_stuck, mm_stuck) never finishes its item.
Fairness ==
    /\ WF_vars(TeeSideEnqueue)
    /\ WF_vars(TeeSideTimeout)
    /\ WF_vars(TxWorkerDequeue)
    /\ WF_vars(TxWorkerComplete)
    /\ WF_vars(CallNextDone)
    /\ WF_vars(TeeReconcile)
    /\ WF_vars(TeeMismatchEnqueue)
    /\ WF_vars(MmWorkerDequeue)
    /\ WF_vars(MmWorkerComplete)
    /\ WF_vars(TeeMismatchReturn)
    /\ WF_vars(SamplerSampleDone)
    /\ WF_vars(SamplerReturn)
    /\ WF_vars(MpscTeeSend)
    /\ WF_vars(MpscTeeReturn)
    /\ WF_vars(MpscLoopRecv)
    /\ WF_vars(MpscLoopProcessed)
    /\ WF_vars(MpscLoopRecvNone)
    /\ WF_vars(MpscLoopAgain)
    /\ WF_vars(PortsRewriteFinish)
    /\ WF_vars(TaggerFinish)

FairSpec == Spec /\ Fairness

\* ------------------------------------------------------------------- claims
IsTee(b) == transform = "Tee" /\ behavior = b

\* C1: under Ignore, whatever the side submission did (success, error,
\* timeout), transform returns exactly what call_next_transform produced.
C1_IgnoreNonInterference ==
    (IsTee("Ignore") /\ pc = "returned") => result = chain_result

C1_Witness ==
    /\ IsTee("Ignore") /\ pc = "returned"
    /\ IsErr(tee_result) /\ IsOk(chain_result) /\ result = chain_result

\* C2: under FailOnMismatch with both chains successful, a side batch that
\* differs from the main batch turns every returned message into an error
\* response with the fixed diagnostic (same length as the main batch); equal
\* batches return the main batch unchanged.
C2_FailOnMismatchDetection ==
    (IsTee("FailOnMismatch") /\ pc = "returned" /\ IsOk(tee_result) /\ IsOk(chain_result)) =>
        /\ IsOk(result)
        /\ IF tee_result.v # chain_result.v
           THEN /\ Len(result.v) = Len(chain_result.v)
                /\ \A i \in 1..Len(result.v) :
                     result.v[i].t = "Error" /\ result.v[i].v = MismatchDiag
           ELSE result.v = chain_result.v

C2_Witness ==
    /\ IsTee("FailOnMismatch") /\ pc = "returned"
    /\ IsOk(tee_result) /\ IsOk(chain_result) /\ IsOk(result)
    /\ tee_result.v # chain_result.v
    /\ Len(result.v) = 2 /\ result.v[2].t = "Error"

\* C3: under FailOnMismatch, an error of the side submission or of the main
\* chain makes transform return an error, never a response batch.
C3_FailOnMismatchPropagates ==
    (IsTee("FailOnMismatch") /\ pc = "returned" /\ (IsErr(tee_result) \/ IsErr(chain_result))) =>
        IsErr(result)

C3_Witness ==
    /\ IsTee("FailOnMismatch") /\ pc = "returned"
    /\ IsErr(tee_result) /\ IsOk(chain_result) /\ IsErr(result)

\* C4: under SubchainOnMismatch with both chains successful, transform
\* returns the main response batch unchanged, whatever the mismatch chain does.
C4_SubchainReturnsMain ==
    (IsTee("SubchainOnMismatch") /\ pc = "returned" /\ IsOk(tee_result) /\ IsOk(chain_result)) =>
        result = Ok(chain_result.v)

\* C5: under SubchainOnMismatch the mismatch chain receives one submission
\* exactly when both chains succeeded with different batches, none otherwise,
\* and the submitted batch is the request as it arrived at the Tee.
C5_MismatchSubmission ==
    IsTee("SubchainOnMismatch") =>
        /\ mm_received \in {<<>>, <<request>>}
        /\ (pc = "returned") =>
              (mm_received = <<request>>) =
                 (IsOk(tee_result) /\ IsOk(chain_result) /\ tee_result.v # chain_result.v)
        /\ (pc = "mismatch" /\ mm_submit # "sending") => mm_received = <<request>>

C5_Witness ==
    /\ IsTee("SubchainOnMismatch") /\ pc = "mismatch" /\ mm_submit = "awaiting"
    /\ mm_received = <<request>> /\ message_wrapper # request /\ Len(request) = 2

\* C6: under SubchainOnMismatch, once the main response is known and the
\* mismatch is being handled, transform returns even if the mismatch chain
\* never completes the work item.
C6_MismatchFireAndForget ==
    (IsTee("SubchainOnMismatch") /\ pc = "mismatch") ~> (pc = "returned")

\* C7: under Ignore, once the downstream chain has answered, transform
\* returns, even when the side chain completes nothing and its queue is full.
C7_IgnoreNeverBlocks ==
    (IsTee("Ignore") /\ pc = "join" /\ chain_result # Pending) ~> (pc = "returned")

\* C8: every non-terminating transform invokes call_next_transform exactly
\* once per transform call: never twice, and once by the time it returns.
C8_CallNextExactlyOnce ==
    /\ nextCalls <= 1
    /\ (pc = "returned") => nextCalls = 1

C8_Witness ==
    /\ transform = "Sampler" /\ pc = "returned"
    /\ ~(chance < numerator) /\ nextCalls = 1 /\ result = chain_result

\* C9: a successful call of Tee, Sampler, RedisClusterPortsRewrite or
\* RedisTimestampTagger returns as many responses as call_next_transform
\* returned, the i-th being the i-th of them, as it was or as the transform
\* rewrote it; so a one-to-one downstream chain gives one response per request,
\* in request order.
DerivedFrom(r, c) ==
    CASE transform \in {"Tee", "Sampler"} ->
            r = c \/ r = to_error_response(c, MismatchDiag)
      [] transform = "RedisClusterPortsRewrite" ->
            \/ r = c
            \/ /\ rewrite_port(c.original, new_port).ok
               /\ r = [c EXCEPT !.original = rewrite_port(c.original, new_port).frame]
      [] transform = "RedisTimestampTagger" ->
            \/ r = c
            \/ /\ c.details = "Response"
               /\ \E now \in Nows : r = [unwrap_response(c, now) EXCEPT !.modified = TRUE]
      [] OTHER -> FALSE

C9_OneInOneOut ==
    (/\ transform \in {"Tee", "Sampler", "RedisClusterPortsRewrite", "RedisTimestampTagger"}
     /\ pc = "returned" /\ IsOk(result)) =>
        /\ IsOk(chain_result)
        /\ Len(result.v) = Len(chain_result.v)
        /\ \A i \in 1..Len(result.v) : DerivedFrom(result.v[i], chain_result.v[i])
        /\ (Len(chain_result.v) = Len(request)) => (Len(result.v) = Len(request))
        /\ (transform \in {"Tee", "Sampler"} /\ chain_result.v = Echo(request)
              /\ ~(behavior = "FailOnMismatch" /\ tee_result.v # chain_result.v))
             => result.v = request

C9_Witness ==
    /\ transform = "RedisClusterPortsRewrite" /\ pc = "returned" /\ IsOk(result)
    /\ Len(request) = 2 /\ Len(result.v) = 2
    /\ is_cluster_slots(request[2].original)
    /\ result.v[2] # chain_result.v[2]
    /\ result.v[1] = chain_result.v[1]

\* C10: TeeBuilder::validate returns the k errors of the mismatch sub-chain,
\* in order, each indented by two more spaces, under the line "Tee:"; with no
\* sub-chain error, or no mismatch chain (Ignore, FailOnMismatch), it returns
\* the empty list.
C10_ValidationComposition ==
    (transform = "TeeBuilder" /\ errors # None) =>
        LET sub == IF builder.mismatch_chain = None THEN <<>>
                   ELSE TransformChainBuilder_validate("mismatch_chain", builder.mismatch_chain.v)
        IN  /\ IF sub = <<>>
               THEN errors.v = <<>>
               ELSE /\ Len(errors.v) = Len(sub) + 1
                    /\ errors.v[1] = "Tee:"
                    /\ \A i \in 1..Len(sub) : errors.v[i + 1] = "  " \o sub[i]
            /\ (behavior \in {"Ignore", "FailOnMismatch"}) => errors.v = <<>>

C10_Witness ==
    /\ transform = "TeeBuilder"
    /\ builder.mismatch_chain = Some(<<"NullSink", "NullSink">>)
    /\ errors = Some(<<"Tee:", "  mismatch_chain:",
                       "    Terminating transform \"NullSink\" is not last in chain. Terminating transform must be last in chain.">>)


\* C11: TeeBuilder::validate rejects an invalid inner tee chain: when the chain
\* configured under `chain` has validation errors, the returned list is not
\* empty and contains each of them, under every consistency behavior.
C11_InnerChainValidated ==
    (transform = "TeeBuilder" /\ errors # None) =>
        LET sub == TransformChainBuilder_validate("tee_chain", builder.tx)
        IN  sub # <<>> =>
               /\ errors.v # <<>>
               /\ \A i \in 1..Len(sub) : \E j \in 1..Len(errors.v) : errors.v[j] = "  " \o sub[i]


\* C12: tee_dropped_messages changes only when a Tee.transform call in Ignore
\* mode returns: by exactly 1 when the side submission returned an error, by 0
\* when it succeeded; no other step, and no step of FailOnMismatch or
\* SubchainOnMismatch, changes it.
C12_DroppedCounter ==
    [][ IF IsTee("Ignore") /\ pc = "join" /\ pc' = "returned"
        THEN dropped_messages' = dropped_messages + (IF IsErr(tee_result) THEN 1 ELSE 0)
        ELSE dropped_messages' = dropped_messages ]_vars

C12_Witness ==
    /\ IsTee("Ignore") /\ pc = "returned" /\ calls = 3
    /\ IsErr(tee_result) /\ dropped_messages = 1


\* C13: with Tee(Ignore) and a side chain that always errors, one batch of
\* three pipelined requests returns the three main responses in order and,
\* once the side chain is done with its copy, tee_dropped_messages has grown
\* from 0 by the number of request messages, 3.
C13_DroppedPerMessage ==
    (/\ IsTee("Ignore") /\ side_sink = "ErrSink"
     /\ calls = 1 /\ pc = "returned" /\ Len(request) = 3
     /\ chain_result = Ok(Replace(request))
     /\ tx = EmptyChain) =>
        /\ result = chain_result
        /\ dropped_messages = Len(request)


\* C14: a Sampler call sends a clone of the wrapper through the side chain
\* exactly when the integer drawn in [0, denominator) is less than numerator:
\* the sampled call runs the join on a clone equal to the request and ends with
\* one side result, the other call has none; so numerator >= denominator
\* samples every call and numerator = 0 samples none.
C14_SampledIffDraw ==
    (transform = "Sampler" /\ pc # "idle") =>
        /\ chance \in 0..(denominator - 1)
        /\ (pc = "join") => chance < numerator
        /\ (pc = "join" /\ tee_result = Pending) => side_clone = request
        /\ (pc = "next") => ~(chance < numerator)
        /\ (pc = "returned") => ((tee_result \in SideAnswers(request)) = (chance < numerator))
        /\ (pc = "returned" /\ ~(chance < numerator)) => tee_result = None
        /\ (numerator >= denominator /\ pc = "returned") => tee_result \in SideAnswers(request)
        /\ (numerator = 0) => pc \in {"next", "returned"} /\ tee_result = None

C14_Witness ==
    /\ transform = "Sampler" /\ pc = "returned" /\ calls = 2
    /\ numerator = 1 /\ denominator = 2 /\ chance = 1
    /\ tee_result = None /\ IsOk(result)


\* C15: Sampler returns exactly what call_next_transform produced on the
\* original wrapper, sampled or not; a side-chain error is never returned and
\* never changes the main response.
C15_SamplerReturnsDownstream ==
    (transform = "Sampler" /\ pc = "returned") =>
        /\ result = chain_result
        /\ chain_result \in ChainAnswers(request)

C15_Witness ==
    /\ transform = "Sampler" /\ pc = "returned"
    /\ chance < numerator /\ IsErr(tee_result)
    /\ IsOk(chain_result) /\ result = chain_result


\* C16: for a well-formed CLUSTER SLOTS response (an array of slot entries,
\* each two slot integers followed by node arrays [ip, port, ..]) and any port
\* P, rewrite_port succeeds, every node port of the outcome is P, and slot
\* start/end, ip, node id, element order and counts are those of the input.
PortSamples == {0, new_port, 6379, 65535}

IsNode(f) ==
    f.t = "Array" /\ Len(f.v) >= 2 /\ f.v[1].t = "BulkString" /\ f.v[2].t = "Integer"

IsSlotEntry(f) ==
    /\ f.t = "Array" /\ Len(f.v) >= 2
    /\ f.v[1].t = "Integer" /\ f.v[2].t = "Integer"
    /\ \A k \in 3..Len(f.v) : IsNode(f.v[k])

IsSlotMap(f) == f.t = "Array" /\ \A j \in 1..Len(f.v) : IsSlotEntry(f.v[j])

PortsOnlyChanged(in, out, P) ==
    /\ out.t = "Array" /\ Len(out.v) = Len(in.v)
    /\ \A j \in 1..Len(in.v) :
        /\ out.v[j].t = "Array" /\ Len(out.v[j].v) = Len(in.v[j].v)
        /\ out.v[j].v[1] = in.v[j].v[1] /\ out.v[j].v[2] = in.v[j].v[2]
        /\ \A k \in 3..Len(in.v[j].v) :
            /\ out.v[j].v[k].t = "Array" /\ Len(out.v[j].v[k].v) = Len(in.v[j].v[k].v)
            /\ out.v[j].v[k].v[2] = Integer(P)
            /\ \A e \in 1..Len(in.v[j].v[k].v) : e # 2 => out.v[j].v[k].v[e] = in.v[j].v[k].v[e]

C16_PortRewrite ==
    (transform = "RedisClusterPortsRewrite" /\ pc \in {"returned", "panicked"} /\ IsOk(chain_result)) =>
        \A i \in 1..Len(chain_result.v) :
            LET in == chain_result.v[i].original IN
            IsSlotMap(in) =>
               /\ \A P \in PortSamples :
                     /\ rewrite_port(in, P).ok
                     /\ PortsOnlyChanged(in, rewrite_port(in, P).frame, P)
               /\ (IsOk(result) /\ i <= Len(request) /\ is_cluster_slots(request[i].original)) =>
                     PortsOnlyChanged(in, result.v[i].original, new_port)

C16_Witness ==
    /\ transform = "RedisClusterPortsRewrite" /\ pc = "returned" /\ IsOk(result)
    /\ Len(request) = 1 /\ is_cluster_slots(request[1].original)
    /\ chain_result.v[1].original = SlotMap(1)
    /\ result.v[1].original.v[1].v[3] = Array(<<BulkString("192.168.80.7"), Integer(new_port), BulkString("id192.168.80.7")>>)
    /\ result.v[1].original.v[2].v[3].v[2] = Integer(new_port)


\* C17: when the response at a recorded CLUSTER SLOTS index has not the
\* slot-map shape (it is no array, a top-level element is no slot-entry array,
\* or a node entry is no array beginning [ip, port]), the transform returns an
\* error.
C17_BadShapeFails ==
    (/\ transform = "RedisClusterPortsRewrite" /\ pc = "returned" /\ IsOk(chain_result)
     /\ \E i \in 1..Len(request) :
          /\ is_cluster_slots(request[i].original)
          /\ i <= Len(chain_result.v)
          /\ ~IsSlotMap(chain_result.v[i].original)) =>
        IsErr(result)


\* C18: every response message whose ports RedisClusterPortsRewrite rewrote
\* has modified = true when the transform returns.
C18_RewrittenIsModified ==
    (transform = "RedisClusterPortsRewrite" /\ pc = "returned" /\ IsOk(result)) =>
        \A i \in 1..Len(result.v) :
            result.v[i].original # chain_result.v[i].original => result.v[i].modified


\* C19: is_cluster_slots is true exactly for an array of exactly two elements,
\* both bulk strings, equal without regard to case to CLUSTER and SLOTS; it is
\* false for every other frame, an array with further elements included.
IsTwoArgClusterSlots(frame) ==
    /\ frame.t = "Array" /\ Len(frame.v) = 2
    /\ frame.v[1].t = "BulkString" /\ frame.v[2].t = "BulkString"
    /\ to_ascii_uppercase(frame.v[1].v) = "CLUSTER"
    /\ to_ascii_uppercase(frame.v[2].v) = "SLOTS"

C19_IsClusterSlots ==
    (transform = "RedisClusterPortsRewrite" /\ pc # "idle") =>
        \A i \in 1..Len(request) :
            /\ is_cluster_slots(request[i].original) = IsTwoArgClusterSlots(request[i].original)
            /\ (i \in {cluster_slots_indices(request)[k] : k \in 1..Len(cluster_slots_indices(request))})
                  = IsTwoArgClusterSlots(request[i].original)


\* C20: when call_next_transform returns an error, Tee (every policy),
\* Sampler, RedisClusterPortsRewrite and RedisTimestampTagger return an error:
\* the downstream error itself, or under FailOnMismatch/SubchainOnMismatch the
\* side error when the side submission failed too; never a success response.
C20_ErrorShortCircuit ==
    (/\ transform \in {"Tee", "Sampler", "RedisClusterPortsRewrite", "RedisTimestampTagger"}
     /\ pc = "returned" /\ IsErr(chain_result)) =>
        /\ IsErr(result)
        /\ \/ result = chain_result
           \/ /\ transform = "Tee" /\ behavior # "Ignore"
              /\ IsErr(tee_result) /\ result = tee_result

C20_Witness ==
    /\ transform = "RedisTimestampTagger" /\ pc = "returned"
    /\ Len(request) = 2 /\ request[2] = Query("EXEC", FALSE)
    /\ IsErr(chain_result) /\ result = chain_result


\* Submissions to the side chain that have completed while its chain never
\* completes an item: the items waiting in the queue and the one the worker took.
SideSubmitted == Len(tx.queue) + (IF tx.busy = None THEN 0 ELSE 1)

\* A no-return submission that is suspended waiting for queue space.
SideSuspended == pc = "join" /\ side_submit = "sending" /\ ~HasSpace(tx)

\* C21 as stated: with a side chain that never completes, exactly B no-return
\* submissions complete and the (B+1)-th suspends.
C21_ExactlyBComplete ==
    (IsTee("Ignore") /\ side_stuck) =>
        /\ SideSubmitted <= buffer_size
        /\ SideSuspended => SideSubmitted = buffer_size

\* C21 amended: with a side chain that never completes, at most B + 1
\* no-return submissions complete (B waiting in the queue and the one the
\* worker has taken); a submission is suspended exactly while B items wait in
\* the queue; cancelling it leaves the number of queued items at B.
C21_Backpressure ==
    /\ [](IsTee("Ignore") /\ side_stuck =>
            /\ SideSubmitted <= buffer_size + 1
            /\ Len(tx.queue) <= buffer_size
            /\ (pc = "join" /\ side_submit = "sending") =>
                  (~ENABLED TeeSideEnqueue <=> Len(tx.queue) = buffer_size))
    /\ [][(IsTee("Ignore") /\ side_stuck /\ side_submit = "sending" /\ IsErr(tee_result')) =>
            /\ Len(tx.queue) = buffer_size
            /\ Len(tx'.queue) = buffer_size]_vars

C21_Witness ==
    /\ IsTee("Ignore") /\ side_stuck /\ pc = "join"
    /\ tee_result = Err("Backpressure")
    /\ tx.busy # None /\ Len(tx.queue) = buffer_size
    /\ SideSubmitted = buffer_size + 1


FifoStep(q, b, q2, b2) ==
    \/ q2 = q /\ b2 = b
    \/ b2 = b /\ Len(q2) = Len(q) + 1 /\ SubSeq(q2, 1, Len(q)) = q
    \/ b = None /\ q # <<>> /\ b2 = Head(q) /\ q2 = Tail(q)
    \/ b # None /\ b2 = None /\ q2 = q
    \/ /\ Len(q2) = Len(q) /\ \A i \in 1..Len(q) : q2[i].messages = q[i].messages
       /\ (b = None) = (b2 = None)
       /\ b # None => b2.messages = b.messages

\* C23: the worker takes items strictly in enqueue order and only when it has
\* finished the item before, so at most one item is being processed and no
\* item overtakes another: in the AsyncMpsc loop and in the Tee's side and
\* mismatch queues.
C23_SingleWorkerFifo ==
    [][ /\ FifoStep(tx.queue, tx.busy, tx'.queue, tx'.busy)
        /\ mismatch_chain # None =>
             FifoStep(mismatch_chain.queue, mismatch_chain.busy,
                      mismatch_chain'.queue, mismatch_chain'.busy) ]_vars

C23_Witness ==
    /\ transform = "AsyncMpscTee" /\ calls = 2 /\ request = RequestOfLen(2)
    /\ tx.busy = WorkItem(RequestOfLen(1), "none")
    /\ tx.queue = <<WorkItem(RequestOfLen(2), "none")>>


\* C24: once the channel is closed (every Sender dropped), the worker task
\* processes the items still queued and then terminates.
C24_WorkerTerminates ==
    (transform = "AsyncMpscTee" /\ closed /\ ~side_stuck) ~> (rx_handle = "finished")


\* The request batch contains a query whose command is EXEC.
HasExec(messages) ==
    \E i \in 1..Len(messages) : messages[i].details = "Query" /\ messages[i].command = "EXEC"

\* C25: tagged_success is false after the request loop for every batch, so a
\* successful call unwraps the responses and marks them modified exactly when
\* the request batch contains an EXEC query, however many queries were
\* rewritten into EVAL scripts.
C25_TaggedSuccessAlwaysFalse ==
    (transform = "RedisTimestampTagger" /\ pc # "idle") =>
        /\ ~TaggerLoop(request, Len(request)).tagged_success
        /\ (pc = "returned" /\ IsOk(chain_result)) =>
              /\ IsOk(result) /\ Len(result.v) = Len(chain_result.v)
              /\ \A i \in 1..Len(result.v) :
                    IF HasExec(request) /\ chain_result.v[i].details = "Response"
                    THEN /\ result.v[i].modified
                         /\ \E now \in Nows :
                              result.v[i] = [unwrap_response(chain_result.v[i], now) EXCEPT !.modified = TRUE]
                    ELSE result.v[i] = chain_result.v[i]

C25_Witness ==
    /\ transform = "RedisTimestampTagger" /\ pc = "returned"
    /\ request = <<Query("GET", TRUE), Query("GET", TRUE)>>
    /\ IsOk(chain_result) /\ Len(chain_result.v) = 2
    /\ chain_result.v[1] = Response(Some(VList(<<VBytes("v1"), VInteger(10)>>)))
    /\ result = chain_result


\* C26: the side chain processes the Tee's copies in the order in which the
\* Tee received the batches, and each copy equals the batch as received: a
\* transform call appends at most one item, at the tail of the side queue, with
\* the request batch as it arrived (whatever downstream transforms did to the
\* wrapper since), and the worker takes items from the head, one at a time.
C26_SideOrder ==
    [][ transform = "Tee" =>
          /\ FifoStep(tx.queue, tx.busy, tx'.queue, tx'.busy)
          /\ Len(tx'.queue) > Len(tx.queue) =>
                /\ pc = "join" /\ side_submit = "sending" /\ side_submit' # "sending"
                /\ tx'.queue[Len(tx'.queue)].messages = request
          /\ (side_submit # "sending" /\ side_submit' = "sending") => calls' = calls + 1 ]_vars

C26_Witness ==
    /\ transform = "Tee" /\ calls = 2 /\ pc = "join"
    /\ request = RequestOfLen(2) /\ message_wrapper # request
    /\ tx.busy # None /\ tx.busy.messages = RequestOfLen(1)
    /\ Len(tx.queue) = 1 /\ tx.queue[1].messages = request
    /\ chain_result # Pending


\* C27: RedisClusterPortsRewrite passes the request messages downstream
\* unchanged, and returns every response whose request at the same index was
\* not a CLUSTER SLOTS request exactly as call_next_transform returned it.
C27_FrameCondition ==
    (transform = "RedisClusterPortsRewrite") =>
        /\ (pc = "next" /\ chain_result = Pending) => message_wrapper = request
        /\ (pc = "returned" /\ IsOk(result)) =>
              \A i \in 1..Len(result.v) :
                  (i <= Len(request) /\ ~IsTwoArgClusterSlots(request[i].original)) =>
                      result.v[i] = chain_result.v[i]


\* C28: RedisClusterPortsRewrite never indexes past the end of the response
\* batch: whatever batch call_next_transform returns, also one shorter than the
\* request batch, the call ends with a response batch or an error, not a panic.
C28_NoPanic ==
    (transform = "RedisClusterPortsRewrite" /\ chain_result # Pending /\ pc # "next") =>
        /\ pc = "returned"
        /\ IsOk(result) \/ IsErr(result)


\* The response is a list of more than one element, all of them lists.
IsTransactionList(res) ==
    /\ res # None /\ res.v.t = "List" /\ Len(res.v.v) > 1
    /\ \A j \in 1..Len(res.v.v) : res.v.v[j].t = "List"

\* C29: unwrap_response loses no results: for a list of more than one element,
\* all of them lists, the rewritten result list and the timestamp list have as
\* many entries as the original list, entry j taken from the j-th
\* [actual, idletime] pair; for a two-element list that is no such transaction
\* the result becomes the first element and response_meta holds the timestamp.
C29_NoResultLost ==
    (transform = "RedisTimestampTagger" /\ pc = "returned" /\ IsOk(chain_result)
        /\ HasExec(request)) =>
        \A i \in 1..Len(chain_result.v) :
            LET orig == chain_result.v[i]
                out  == result.v[i]
            IN  orig.details = "Response" =>
                  IF IsTransactionList(orig.result)
                  THEN LET values == orig.result.v.v
                           results == out.result.v.v
                           timestamps == out.response_meta.v.v.timestamp.v
                       IN  /\ Len(results) = Len(values)
                           /\ Len(timestamps) = Len(values)
                           /\ \A j \in 1..Len(values) :
                                Len(values[j].v) = 2 =>
                                    results[j] = values[j].v[1] /\ timestamps[j] = values[j].v[2]
                  ELSE (orig.result # None /\ orig.result.v.t = "List" /\ Len(orig.result.v.v) = 2) =>
                         /\ out.result = Some(orig.result.v.v[1])
                         /\ \E now \in Nows :
                              out.response_meta =
                                  Some(VDocument(VInteger(now - orig.result.v.v[2].v)))

====
